---- MODULE Spec2Model ----
(***************************************************************************)
(* Voice-session orchestration core of the DALI assistant:                 *)
(*   backend/wakeup_word_handler.py  WakeWordDetector (detection thread,   *)
(*                                   threading.Timer threads, stop())      *)
(*   backend/websocket_server.py     on_wake_word_detected, handle_client, *)
(*                                   start_wake_word_detector, __main__    *)
(*                                   get_rasa_reply                        *)
(*   backend/language_handler.py     detect_language                       *)
(*   backend/database_handler.py     the rows ConversationDB writes        *)
(*   backend/rasa_handler.py         get_rasa_reply (the retry loop)       *)
(*   main.py                         the offline assistant: main loop,     *)
(*                                   listen_for_command, language switch   *)
(*   backend/speech_handler.py       cleanup_audio                         *)
(* Threads interleave at the granularity of the statements of the source.  *)
(* Time is a discrete clock in seconds.  Thread steps take no time; time   *)
(* passes only while the detection thread blocks (stream.read,             *)
(* future.result, time.sleep), and a threading.Timer wakes at its          *)
(* deadline.  The asyncio event loop runs queued callbacks in FIFO order,  *)
(* with no bound on how late (handle_client blocks it in requests.post).   *)
(***************************************************************************)
EXTENDS Integers, Sequences, FiniteSets, TLC

\* ---------------------------------------------------------------- bounds
MaxDetect == 2
MaxTime == 3
MaxClients == 1
MaxStops == 2
\* config.get("command_timeout", 10), scaled to the clock of the model
Timeout == 2

\* longest text given to detect_language
MaxLen == 4
\* client messages handled by the gateway
MaxMsgs == 2
\* connections made to the gateway while it serves several clients
MaxSessions == 2
\* frames the offline assistant reads from its microphone
MaxFrames == 8
\* largest retries argument given to rasa_handler.get_rasa_reply
MaxRetries == 3

MaxTimers == MaxDetect + 1
TimerIds == 1..MaxTimers
ClientIds == 1..MaxClients
SessionIds == 1..MaxSessions
\* every connection of either bound
Conns == ClientIds \cup SessionIds

VARIABLES
  mpc,          \* __main__: "boot", "serving", "exited"
  ww_detector,  \* websocket_server.ww_detector is not None
  spc,          \* position inside stop(): 0 = not running, 1..5 = next statement
  nStops,       \* number of stop() calls that have returned
  porcupine,    \* self.porcupine handle: "none", "live", "released"
  pa,           \* self.pa handle
  stream,       \* self.stream handle
  relCalls,     \* number of release calls made on each handle
  listening,    \* self._listening
  timer,        \* self._timer: 0 = None, else the id of a Timer object
  timers,       \* per Timer object: st in "unused","armed","cancelled","fired","wait",
                \* "done"; at = the time at which it wakes while armed; fut = the
                \* handoff its _timeout waits on
  dpc,          \* position of _detect_loop
  dfut,         \* the handoff the detection thread waits on
  loopOpen,     \* the asyncio loop is running (asyncio.run has not returned)
  queue,        \* coroutines scheduled by run_coroutine_threadsafe, FIFO
  nextCb,       \* id of the next scheduled coroutine
  voice_mode,   \* websocket_server.voice_mode
  clients,      \* keys of websocket_server.clients
  conn,         \* per connection: "new", "open", "closed"
  pending,      \* per client: websocket.send tasks created by gather, FIFO
  lastMsg,      \* per open connection: the latest message written to its websocket
  now,          \* clock
  \* history
  nDetect,      \* wake-word matches so far
  lastDetect,   \* time of the latest match
  gapsOK,       \* all gaps between successive matches were < Timeout
  ran,          \* ids of the coroutines that have run
  abandoned,    \* ids of the scheduled coroutines whose future.result timed out
  \* configuration
  config,       \* config.json: access_key = picovoice_access_key is set;
                \* keyword_paths = for each path of picovoice_keyword_paths, whether
                \* the file exists
  models,       \* keys of websocket_server.models (languages whose model loaded)
  \* language detection
  lang_in,      \* arguments and environment of one detect_language call
  lang_out,     \* its result, "none" before the call
  \* gateway sessions
  session,      \* per client: the language and tts_enabled fields of its record
  dblog,        \* per client: the rows ConversationDB wrote for its session, in order
  nMsgs,        \* number of client messages handled
  lastHandled,  \* the latest client message handled and what handling it did
  sending,      \* per client: the message its handler is suspended on in
                \* await websocket.send, NoMessage when it awaits the next frame
  \* offline assistant and dialogue client
  assistant,    \* main.py: the locals of main() and the capture streams
  rasa_call     \* one call of rasa_handler.get_rasa_reply

detVars == <<porcupine, pa, stream, relCalls, listening, timer, timers, dpc, dfut>>
mainVars == <<mpc, ww_detector, spc, nStops>>
loopVars == <<loopOpen, queue, nextCb, voice_mode, clients, conn, pending, lastMsg>>
histVars == <<nDetect, lastDetect, gapsOK, ran, abandoned>>
cfgVars == <<config, models>>
langVars == <<lang_in, lang_out>>
gwVars == <<session, dblog, nMsgs, lastHandled, sending>>
offVars == <<assistant, rasa_call>>
vars == <<mainVars, detVars, loopVars, now, histVars, cfgVars, offVars, langVars, gwVars>>

\* ---------------------------------------------------------------- helpers
\* threading.Timer.cancel(): sets the finished event; a timer that is still
\* waiting never calls its function, a timer that already woke is unaffected
TimerCancel(t, k) ==
  IF t[k].st = "armed" THEN [t EXCEPT ![k] = [st |-> "cancelled", at |-> 0, fut |-> 0]] ELSE t

\* _reset_timer, first statement: if self._timer: self._timer.cancel()
ResetCancelled_skip(t, ref) ==
  t
ResetCancelled(t, ref) ==
  IF ref # 0 THEN TimerCancel(t, ref) ELSE t

\* the Timer object created by threading.Timer(...)
FreshTimer ==
  CHOOSE k \in TimerIds :
    timers[k].st = "unused" /\ \A j \in TimerIds : j < k => timers[j].st # "unused"

Armed == {k \in TimerIds : timers[k].st = "armed"}

\* a future of run_coroutine_threadsafe is done when its coroutine has run
\* and the sends it gathered have completed
FutureDone(id) ==
  /\ id \in ran
  /\ \A c \in Conns : \A i \in 1..Len(pending[c]) : pending[c][i].cb # id

NoMessage == [type |-> "none", val |-> FALSE]

\* config.json as the constructor of WakeWordDetector reads it: whether the
\* access key is set, and whether the file of each keyword path exists
Configs ==
  [access_key : BOOLEAN, keyword_paths : {<<>>, <<TRUE>>, <<FALSE>>, <<TRUE, FALSE>>}]

\* the languages of the assistant
Languages == {"english", "hindi"}

\* detect_language has not been called
NoCall == [text |-> <<>>, current_lang |-> "english", langdetect |-> "unavailable"]

\* no record of the client in websocket_server.clients
NoSession == [language |-> "none", tts_enabled |-> FALSE]

\* no client message has been handled
NoHandled ==
  [c |-> 0, kind |-> "none", accepted |-> FALSE, detected |-> "none", switched |-> FALSE,
   rasa |-> "none", requests |-> 0, reply |-> "none", persisted |-> "none", sent |-> "none",
   fault |-> "none"]

\* main() of the offline assistant has not run: no stream object exists
NoAssistant ==
  [pc |-> "none", current_lang |-> "none", recognizer |-> "none", recog |-> "none",
   stream |-> 0, streams |-> <<>>, binding |-> [language |-> "none", stream |-> 0],
   fed |-> {}, frames |-> 0, switches |-> 0]

\* rasa_handler.get_rasa_reply has not been called
NoRasaCall ==
  [pc |-> "none", retries |-> 0, attempt |-> 0, requests |-> 0, outcomes |-> <<>>,
   result |-> "none"]

\* ---------------------------------------------------------------- Init
\* the process after the module of websocket_server has been loaded
ProcessInit ==
  /\ mpc = "boot" /\ ww_detector = FALSE /\ spc = 0 /\ nStops = 0
  /\ porcupine = "none" /\ pa = "none" /\ stream = "none"
  /\ relCalls = [stream |-> 0, pa |-> 0, porcupine |-> 0]
  /\ listening = FALSE /\ timer = 0
  /\ timers = [k \in TimerIds |-> [st |-> "unused", at |-> 0, fut |-> 0]]
  /\ dpc = "none" /\ dfut = 0
  /\ loopOpen = TRUE /\ queue = <<>> /\ nextCb = 1
  /\ voice_mode = FALSE
  /\ clients = {}
  /\ conn = [c \in Conns |-> "new"]
  /\ pending = [c \in Conns |-> <<>>]
  /\ lastMsg = [c \in Conns |-> NoMessage]
  /\ now = 0
  /\ nDetect = 0 /\ lastDetect = 0 /\ gapsOK = TRUE
  /\ ran = {} /\ abandoned = {}
  /\ session = [c \in Conns |-> NoSession]
  /\ dblog = [c \in Conns |-> <<>>]
  /\ nMsgs = 0 /\ lastHandled = NoHandled
  /\ sending = [c \in Conns |-> NoMessage]
  /\ assistant = NoAssistant /\ rasa_call = NoRasaCall

Init ==
  /\ ProcessInit
  /\ config \in Configs
  /\ models = Languages
  /\ lang_in = NoCall /\ lang_out = "none"

\* ---------------------------------------------------------------- __main__
\* start_wake_word_detector(loop): WakeWordDetector(...) then detector.start();
\* any exception of the constructor is caught and None is returned.
\* The constructor acquires porcupine, then pa, then stream, in that order.
CtorOutcomes == {"config_error", "create_error", "pyaudio_error", "open_error", "ok"}

\* WakeWordDetector.__init__, lines 27-36: the checks made before anything is
\* acquired, and the exception the first failing one raises
ConfigCheck_nofiles(cfg) ==
  IF ~cfg.access_key THEN "ValueError"
  ELSE IF cfg.keyword_paths = <<>> THEN "ValueError"
  ELSE "ok"
ConfigCheck(cfg) ==
  IF ~cfg.access_key THEN "ValueError"
  ELSE IF cfg.keyword_paths = <<>> THEN "ValueError"
  ELSE IF \E i \in 1..Len(cfg.keyword_paths) : ~cfg.keyword_paths[i] THEN "FileNotFoundError"
  ELSE "ok"

start_wake_word_detector ==
  /\ mpc = "boot"
  /\ \E o \in CtorOutcomes :
       /\ (o = "config_error") <=> (ConfigCheck(config) # "ok")
       /\ porcupine' = IF o \in {"pyaudio_error", "open_error", "ok"} THEN "live" ELSE "none"
       /\ pa' = IF o \in {"open_error", "ok"} THEN "live" ELSE "none"
       /\ stream' = IF o = "ok" THEN "live" ELSE "none"
       /\ ww_detector' = (o = "ok")
       /\ listening' = (o = "ok")
       /\ dpc' = IF o = "ok" THEN "begin" ELSE "none"
  /\ mpc' = "serving"
  /\ UNCHANGED <<spc, nStops, relCalls, timer, timers, dfut, loopVars, now, histVars,
                 cfgVars, offVars, langVars, gwVars>>

\* asyncio.run(main()) ends with KeyboardInterrupt or another exception.
\* asyncio.run cancels the tasks that remain and closes the loop: every
\* handle_client runs its finally block (lines 147-150), and the coroutines
\* and sends still scheduled are dropped without running.  Both handlers of
\* __main__ then call ww_detector.stop() if it is set.
Shutdown ==
  /\ mpc = "serving"
  /\ \E cause \in {"KeyboardInterrupt", "Exception"} :
       /\ loopOpen' = FALSE
       /\ mpc' = "exited"
       /\ spc' = IF ww_detector THEN 1 ELSE 0
  /\ queue' = <<>>
  /\ pending' = [c \in Conns |-> <<>>]
  /\ clients' = {c \in clients : conn[c] # "open"}
  /\ conn' = [c \in Conns |-> IF conn[c] = "open" THEN "closed" ELSE conn[c]]
  /\ session' = [c \in Conns |-> IF conn[c] = "open" THEN NoSession ELSE session[c]]
  /\ dblog' = [c \in Conns |->
                 IF conn[c] = "open" THEN Append(dblog[c], "end") ELSE dblog[c]]
  /\ lastMsg' = [c \in Conns |-> NoMessage]
  /\ sending' = [c \in Conns |-> NoMessage]
  /\ abandoned' = {}
  /\ UNCHANGED <<ww_detector, nStops, detVars, nextCb, voice_mode, now,
                 nDetect, lastDetect, gapsOK, ran,
                 cfgVars, offVars, langVars, nMsgs, lastHandled>>

\* a further call of stop() on the same detector
StopAgain ==
  /\ mpc = "exited" /\ ww_detector /\ spc = 0
  /\ nStops >= 1 /\ nStops < MaxStops
  /\ spc' = 1
  /\ UNCHANGED <<mpc, ww_detector, nStops, detVars, loopVars, now, histVars,
                 cfgVars, offVars, langVars, gwVars>>

\* ---------------------------------------------------------------- stop()
\* the guard "if self.stream:" (and self.pa, self.porcupine) tests the
\* attribute, which stop() never resets: it holds for any handle once acquired
Release(h) ==
  IF h # "none" THEN "released" ELSE h

Released(h, n) ==
  IF h # "none" THEN n + 1 ELSE n

StopListening ==
  /\ spc = 1
  /\ listening' = FALSE
  /\ spc' = 2
  /\ UNCHANGED <<mpc, ww_detector, nStops, porcupine, pa, stream, relCalls, timer, timers, dpc, dfut, loopVars, now, histVars,
                 cfgVars, offVars, langVars, gwVars>>

StopCancelTimer ==
  /\ spc = 2
  /\ timers' = IF timer # 0 THEN TimerCancel(timers, timer) ELSE timers
  /\ spc' = 3
  /\ UNCHANGED <<mpc, ww_detector, nStops, porcupine, pa, stream, relCalls, listening, timer, dpc, dfut, loopVars, now, histVars,
                 cfgVars, offVars, langVars, gwVars>>

StopCloseStream ==
  /\ spc = 3
  /\ stream' = Release(stream)
  /\ relCalls' = [relCalls EXCEPT !.stream = Released(stream, @)]
  /\ spc' = 4
  /\ UNCHANGED <<mpc, ww_detector, nStops, porcupine, pa, listening, timer, timers, dpc, dfut, loopVars, now, histVars,
                 cfgVars, offVars, langVars, gwVars>>

StopTerminate ==
  /\ spc = 4
  /\ pa' = Release(pa)
  /\ relCalls' = [relCalls EXCEPT !.pa = Released(pa, @)]
  /\ spc' = 5
  /\ UNCHANGED <<mpc, ww_detector, nStops, porcupine, stream, listening, timer, timers, dpc, dfut, loopVars, now, histVars,
                 cfgVars, offVars, langVars, gwVars>>

StopDelete ==
  /\ spc = 5
  /\ porcupine' = Release(porcupine)
  /\ relCalls' = [relCalls EXCEPT !.porcupine = Released(porcupine, @)]
  /\ spc' = 0
  /\ nStops' = nStops + 1
  /\ UNCHANGED <<mpc, ww_detector, pa, stream, listening, timer, timers, dpc, dfut, loopVars, now, histVars,
                 cfgVars, offVars, langVars, gwVars>>

stop ==
  StopListening \/ StopCancelTimer \/ StopCloseStream \/ StopTerminate \/ StopDelete

\* ---------------------------------------------------------------- _detect_loop
\* _reset_timer is two statements: cancel the previous Timer, then create and
\* start the replacement; the thread is between them at "begin_arm"/"reset_arm"
ResetCancel(from, to) ==
  /\ dpc = from
  /\ timers' = ResetCancelled(timers, timer)
  /\ dpc' = to
  /\ UNCHANGED <<mainVars, porcupine, pa, stream, relCalls, listening, timer,
                 dfut, loopVars, now, histVars,
                 cfgVars, offVars, langVars, gwVars>>

ResetArm(from, to) ==
  /\ dpc = from
  /\ timers' = [timers EXCEPT ![FreshTimer] = [st |-> "armed", at |-> now + Timeout, fut |-> 0]]
  /\ timer' = FreshTimer
  /\ dpc' = to
  /\ UNCHANGED <<mainVars, porcupine, pa, stream, relCalls, listening, dfut, loopVars,
                 now, histVars,
                 cfgVars, offVars, langVars, gwVars>>

\* line 103: self._reset_timer() on entry of the loop
DBegin ==
  ResetCancel("begin", "begin_arm") \/ ResetArm("begin_arm", "check")

\* line 105: while self._listening
DCheck ==
  /\ dpc = "check"
  /\ dpc' = IF listening THEN "read" ELSE "done"
  /\ UNCHANGED <<mainVars, porcupine, pa, stream, relCalls, listening, timer, timers, dfut, loopVars, now, histVars,
                 cfgVars, offVars, langVars, gwVars>>

\* lines 126-129: an exception raised inside the body of the while loop is
\* caught inside the loop; the thread logs it and goes on to time.sleep(0.1)
OnStreamError_exit ==
  "done"
OnStreamError ==
  "sleep"

\* line 107: self.stream.read(...): a frame, or an exception (always one on a
\* stream that stop() has closed), which line 126 catches
DRead ==
  /\ dpc = "read"
  /\ \E ok \in BOOLEAN :
       /\ ok => stream = "live"
       /\ dpc' = IF ok THEN "process" ELSE OnStreamError
  /\ UNCHANGED <<mainVars, porcupine, pa, stream, relCalls, listening, timer, timers, dfut, loopVars, now, histVars,
                 cfgVars, offVars, langVars, gwVars>>

\* _safe_process, lines 67-73: the keyword index porcupine.process returns
\* (-1 for no match), and -1 when it raises
safe_process(raised, index) ==
  IF raised THEN -1 ELSE index

\* lines 109-112: result = self._safe_process(pcm).  A call on a deleted
\* spotter is undefined and may return or raise anything.
DProcess ==
  /\ dpc = "process"
  /\ \E raised \in BOOLEAN, index \in {-1, 0} :
       IF safe_process(raised, index) >= 0
       THEN /\ nDetect < MaxDetect
            /\ nDetect' = nDetect + 1
            /\ lastDetect' = now
            /\ gapsOK' = (gapsOK /\ (nDetect = 0 \/ now - lastDetect < Timeout))
            /\ dpc' = "reset"
       ELSE /\ dpc' = "check"
            /\ UNCHANGED <<nDetect, lastDetect, gapsOK>>
  /\ UNCHANGED <<mainVars, porcupine, pa, stream, relCalls, listening, timer, timers, dfut, loopVars, now, ran, abandoned,
                 cfgVars, offVars, langVars, gwVars>>

\* line 114: self._reset_timer() after a match
DReset ==
  ResetCancel("reset", "reset_arm") \/ ResetArm("reset_arm", "handoff")

\* lines 116-121: run_coroutine_threadsafe(self.on_wake_callback(enable=True), loop);
\* on a closed loop it raises RuntimeError, which line 123 catches
DHandoff ==
  /\ dpc = "handoff"
  /\ IF loopOpen
     THEN /\ queue' = Append(queue, [enable |-> TRUE, id |-> nextCb])
          /\ nextCb' = nextCb + 1
          /\ dfut' = nextCb
          /\ dpc' = "wait"
     ELSE /\ dpc' = "check"
          /\ UNCHANGED <<queue, nextCb, dfut>>
  /\ UNCHANGED <<mainVars, porcupine, pa, stream, relCalls, listening, timer, timers, loopOpen, voice_mode, clients, conn, pending, lastMsg, now, histVars,
                 cfgVars, offVars, langVars, gwVars>>

\* future.result(timeout=...) raises TimeoutError when the future is not done
\* at the end of the wait; how long the loop takes is not bounded, so the
\* timeout can happen whenever the future is not done
ResultTimesOut_never(id) ==
  FALSE
ResultTimesOut(id) ==
  ~FutureDone(id)

\* history: the handoffs given up by their thread while their coroutine is
\* still scheduled on the loop
Abandon(ab, id) ==
  IF \E i \in 1..Len(queue) : queue[i].id = id THEN ab \cup {id} ELSE ab

\* line 122: future.result(timeout=1.0) returns
DWaitDone ==
  /\ dpc = "wait"
  /\ FutureDone(dfut)
  /\ dpc' = "check"
  /\ UNCHANGED <<mainVars, porcupine, pa, stream, relCalls, listening, timer, timers, dfut, loopVars, now, histVars,
                 cfgVars, offVars, langVars, gwVars>>

\* lines 122-124: future.result(timeout=1.0) times out; the exception is
\* logged and the future is left as it is
DWaitTimeout ==
  /\ dpc = "wait"
  /\ ResultTimesOut(dfut)
  /\ abandoned' = Abandon(abandoned, dfut)
  /\ dpc' = "check"
  /\ UNCHANGED <<mainVars, porcupine, pa, stream, relCalls, listening, timer, timers, dfut, loopVars, now, nDetect, lastDetect, gapsOK, ran,
                 cfgVars, offVars, langVars, gwVars>>

\* lines 126-129: except Exception: time.sleep(0.1)
DSleep ==
  /\ dpc = "sleep"
  /\ dpc' = "check"
  /\ UNCHANGED <<mainVars, porcupine, pa, stream, relCalls, listening, timer, timers, dfut, loopVars, now, histVars,
                 cfgVars, offVars, langVars, gwVars>>

detect_loop ==
  DBegin \/ DCheck \/ DRead \/ DProcess \/ DReset \/ DHandoff \/ DWaitDone \/ DWaitTimeout
    \/ DSleep

\* ---------------------------------------------------------------- Timer threads
\* threading.Timer.run: the wait ended without cancel(); _timeout is entered
TimerFire(k) ==
  /\ timers[k].st = "armed"
  /\ now >= timers[k].at
  /\ timers' = [timers EXCEPT ![k] = [st |-> "fired", at |-> 0, fut |-> 0]]
  /\ UNCHANGED <<mainVars, porcupine, pa, stream, relCalls, listening, timer, dpc, dfut, loopVars, now, histVars,
                 cfgVars, offVars, langVars, gwVars>>

\* _timeout, line 87: the argument of the notification, enable=False
TimeoutEnable_true ==
  TRUE
TimeoutEnable ==
  FALSE

\* _timeout, lines 85-90: run_coroutine_threadsafe(self.on_wake_callback(enable=False), loop)
TimerHandoff(k) ==
  /\ timers[k].st = "fired"
  /\ IF loopOpen
     THEN /\ queue' = Append(queue, [enable |-> TimeoutEnable, id |-> nextCb])
          /\ nextCb' = nextCb + 1
          /\ timers' = [timers EXCEPT ![k] = [st |-> "wait", at |-> 0, fut |-> nextCb]]
     ELSE /\ timers' = [timers EXCEPT ![k] = [st |-> "done", at |-> 0, fut |-> 0]]
          /\ UNCHANGED <<queue, nextCb>>
  /\ UNCHANGED <<mainVars, porcupine, pa, stream, relCalls, listening, timer, dpc, dfut, loopOpen, voice_mode, clients, conn, pending, lastMsg, now, histVars,
                 cfgVars, offVars, langVars, gwVars>>

\* _timeout, line 91: future.result(timeout=2.0) returns or times out
TimerWait(k) ==
  /\ timers[k].st = "wait"
  /\ \/ /\ FutureDone(timers[k].fut)
        /\ UNCHANGED abandoned
     \/ /\ ResultTimesOut(timers[k].fut)
        /\ abandoned' = Abandon(abandoned, timers[k].fut)
  /\ timers' = [timers EXCEPT ![k] = [st |-> "done", at |-> 0, fut |-> 0]]
  /\ UNCHANGED <<mainVars, porcupine, pa, stream, relCalls, listening, timer, dpc, dfut, loopVars, now, nDetect, lastDetect, gapsOK, ran,
                 cfgVars, offVars, langVars, gwVars>>

timeout_thread ==
  \E k \in TimerIds : TimerFire(k) \/ TimerHandoff(k) \/ TimerWait(k)

\* ---------------------------------------------------------------- event loop
\* on_wake_word_detected, lines 36-38: voice_mode = enable, and the message
\* carries voice_mode as it is after the assignment
BroadcastValue_stale(enable, previous) ==
  previous
BroadcastValue(enable, previous) ==
  enable

\* line 40: one websocket.send per record of clients, created when the
\* coroutine runs; gather starts them in order
Broadcast(pend, cl, val, id) ==
  [c \in Conns |->
     IF c \in cl THEN Append(pend[c], [enabled |-> val, cb |-> id]) ELSE pend[c]]

\* the loop runs the next scheduled coroutine up to its await
on_wake_word_detected ==
  /\ loopOpen /\ queue # <<>>
  /\ LET h == Head(queue) IN
       /\ voice_mode' = h.enable
       /\ pending' = Broadcast(pending, clients, BroadcastValue(h.enable, voice_mode), h.id)
       /\ ran' = ran \cup {h.id}
       /\ abandoned' = abandoned \ {h.id}
  /\ queue' = Tail(queue)
  /\ UNCHANGED <<mainVars, detVars, loopOpen, nextCb, clients, conn, lastMsg, now,
                 nDetect, lastDetect, gapsOK,
                 cfgVars, offVars, langVars, gwVars>>

\* line 40, return_exceptions=True: a send that raises ends with the
\* exception as its result, and the other sends gather started go on
AfterSendRaised_abort(pend, c) ==
  [d \in Conns |->
     IF d = c THEN Tail(pend[d])
     ELSE SelectSeq(pend[d], LAMBDA m : m.cb # Head(pend[c]).cb)]
AfterSendRaised(pend, c) ==
  [pend EXCEPT ![c] = Tail(@)]

\* one gathered websocket.send(message) runs; on a closed connection it
\* raises, and the exception is the result gather keeps for it
Send(c) ==
  /\ loopOpen /\ pending[c] # <<>>
  /\ LET m == Head(pending[c]) IN
       IF conn[c] = "open"
       THEN /\ lastMsg' = [lastMsg EXCEPT ![c] = [type |-> "voice_mode", val |-> m.enabled]]
            /\ pending' = [pending EXCEPT ![c] = Tail(@)]
       ELSE /\ lastMsg' = [lastMsg EXCEPT ![c] = [type |-> "send_raised", val |-> m.enabled]]
            /\ pending' = AfterSendRaised(pending, c)
  /\ UNCHANGED <<mainVars, detVars, loopOpen, queue, nextCb, voice_mode, clients, conn,
                 now, histVars,
                 cfgVars, offVars, langVars, gwVars>>

\* handle_client, lines 88-97: the system message carries voice_mode
SystemMessage_constant(vm) ==
  [type |-> "system", val |-> FALSE]
SystemMessage(vm) ==
  [type |-> "system", val |-> vm]

\* line 75: client_id is a fresh identifier; connections are numbered in the
\* order in which they are accepted
FreshClient(c) ==
  /\ conn[c] = "new"
  /\ \A d \in Conns : d < c => conn[d] # "new"

\* lines 77-83: the record handle_client registers
NewSession == [language |-> "english", tts_enabled |-> TRUE]

\* handle_client, lines 75-97: register the record, db.start_session, then
\* inside the try send the system message; there is no await before the send
Connect(c) ==
  /\ loopOpen /\ mpc = "serving"
  /\ FreshClient(c)
  /\ clients' = clients \cup {c}
  /\ session' = [session EXCEPT ![c] = NewSession]
  /\ dblog' = [dblog EXCEPT ![c] = Append(@, "start")]
  /\ conn' = [conn EXCEPT ![c] = "open"]
  /\ lastMsg' = [lastMsg EXCEPT ![c] = SystemMessage(voice_mode)]
  /\ UNCHANGED <<mainVars, detVars, loopOpen, queue, nextCb, voice_mode, pending, now,
                 histVars,
                 cfgVars, offVars, langVars, nMsgs, lastHandled, sending>>

\* handle_client, lines 75-84, when db.start_session raises: the record is
\* registered, nothing is written, the handler ends before its try
ConnectFault(c) ==
  /\ loopOpen /\ mpc = "serving"
  /\ FreshClient(c)
  /\ clients' = clients \cup {c}
  /\ session' = [session EXCEPT ![c] = NewSession]
  /\ conn' = [conn EXCEPT ![c] = "closed"]
  /\ UNCHANGED <<mainVars, detVars, loopOpen, queue, nextCb, voice_mode, pending, lastMsg,
                 now, histVars, cfgVars, offVars, langVars, dblog, nMsgs, lastHandled, sending>>

\* the finally block, lines 147-150: db.end_session, then the record is
\* deleted; when db.end_session raises the deletion is not reached
FinallyRows_twice(rows, end_ok) ==
  IF end_ok THEN rows \o <<"end", "end">> ELSE rows
FinallyRows(rows, end_ok) ==
  IF end_ok THEN Append(rows, "end") ELSE rows

FinallyClients(cl, c, end_ok) ==
  IF end_ok THEN cl \ {c} ELSE cl

FinallySession(rec, end_ok) ==
  IF end_ok THEN NoSession ELSE rec

\* lines 115 and 137: clients[client_id][...] = ..., the record of the
\* connection whose handler runs is the one written
UpdateRecord_all(ses, c, rec) ==
  [d \in Conns |-> IF conn[d] = "open" THEN rec ELSE ses[d]]
UpdateRecord(ses, c, rec) ==
  [ses EXCEPT ![c] = rec]

\* line 99, async for message in websocket: the handler of connection c
\* takes the next frame only when it is not suspended in a send
AwaitsFrame_always(c) ==
  TRUE
AwaitsFrame(c) ==
  sending[c] = NoMessage

\* handle_client, lines 143-150: the client closed the connection
Disconnect(c) ==
  /\ loopOpen
  /\ conn[c] = "open"
  /\ AwaitsFrame(c)
  /\ conn' = [conn EXCEPT ![c] = "closed"]
  /\ dblog' = [dblog EXCEPT ![c] = FinallyRows(@, TRUE)]
  /\ clients' = FinallyClients(clients, c, TRUE)
  /\ session' = [session EXCEPT ![c] = FinallySession(@, TRUE)]
  /\ lastMsg' = [lastMsg EXCEPT ![c] = NoMessage]
  /\ UNCHANGED <<mainVars, detVars, loopOpen, queue, nextCb, voice_mode, pending, now,
                 histVars,
                 cfgVars, offVars, langVars, nMsgs, lastHandled, sending>>

\* handle_client, lines 143-150, when db.end_session raises in the finally
\* block: the deletion of the record is not reached
DisconnectFault(c) ==
  /\ loopOpen
  /\ conn[c] = "open"
  /\ AwaitsFrame(c)
  /\ conn' = [conn EXCEPT ![c] = "closed"]
  /\ dblog' = [dblog EXCEPT ![c] = FinallyRows(@, FALSE)]
  /\ clients' = FinallyClients(clients, c, FALSE)
  /\ session' = [session EXCEPT ![c] = FinallySession(@, FALSE)]
  /\ lastMsg' = [lastMsg EXCEPT ![c] = NoMessage]
  /\ UNCHANGED <<mainVars, detVars, loopOpen, queue, nextCb, voice_mode, pending, now,
                 histVars,
                 cfgVars, offVars, langVars, nMsgs, lastHandled, sending>>

handle_client ==
  \E c \in ClientIds : Connect(c) \/ Disconnect(c) \/ Send(c)

\* ---------------------------------------------------------------- detect_language
\* the characters texts are made of: Latin letters (one of them upper case),
\* the Devanagari letter KA (U+0915), a space and a digit
Chars == {"h", "a", "i", "H", "DEVANAGARI_KA", "SPACE", "DIGIT_1"}

Texts == UNION {[1..n -> Chars] : n \in 0..MaxLen}

\* str.isalpha, str.isspace and str.lower on one character
isalpha(ch) ==
  ch \in {"h", "a", "i", "H", "DEVANAGARI_KA"}

isspace(ch) ==
  ch = "SPACE"

lower(ch) ==
  IF ch = "H" THEN "h" ELSE ch

\* line 64: '\u0900' <= char <= '\u097F'
InDevanagari(ch) ==
  ch = "DEVANAGARI_KA"

\* str.strip(): the text without its leading and trailing whitespace
strip(text) ==
  LET keep == {i \in 1..Len(text) : ~isspace(text[i])} IN
    IF keep = {} THEN <<>>
    ELSE SubSeq(text, CHOOSE i \in keep : \A j \in keep : i <= j,
                      CHOOSE i \in keep : \A j \in keep : i >= j)

\* line 51: not text or len(text.strip()) < 3
TooShort(text) ==
  text = <<>> \/ Len(strip(text)) < 3

\* lines 57-65: the counters of the loop over the characters
total_alpha(text) ==
  Cardinality({i \in 1..Len(text) : isalpha(text[i])})

hindi_chars(text) ==
  Cardinality({i \in 1..Len(text) : isalpha(text[i]) /\ InDevanagari(text[i])})

\* line 68: total_alpha > 0 and (hindi_chars / total_alpha) > 0.2
ScriptSignal_majority(text) ==
  total_alpha(text) > 0 /\ 2 * hindi_chars(text) > total_alpha(text)
ScriptSignal(text) ==
  total_alpha(text) > 0 /\ 5 * hindi_chars(text) > total_alpha(text)

\* what the langdetect pass does: the package is not installed
\* (LANGDETECT_AVAILABLE is False), detect(text) raises, or it returns a code
LangdetectOutcomes == {"unavailable", "raises", "hi", "en", "en-us", "en-gb", "fr"}

\* lines 90-91
hindi_keywords ==
  { <<"n","a","m","a","s","t","e">>, <<"d","h","a","n","y","a","v","a","a","d">>,
    <<"k","a","i","s","e">>, <<"k","y","a">>, <<"h","a","i">>, <<"h","a","i","n">>,
    <<"a","a","p">>, <<"t","u","m">>, <<"m","a","i","n">>, <<"h","u","m">>,
    <<"k","a","h","a","n">>, <<"k","a","b">> }

\* line 93: text.lower()
text_lower(text) ==
  [i \in 1..Len(text) |-> lower(text[i])]

\* line 95: keyword in text_lower
Contains(text, keyword) ==
  \E i \in 0..(Len(text) - Len(keyword)) : SubSeq(text, i + 1, i + Len(keyword)) = keyword

\* lines 94-97
KeywordSignal(text) ==
  \E keyword \in hindi_keywords : Contains(text_lower(text), keyword)

\* detect_language(text, current_lang), lines 35-101; langdetect is what the
\* langdetect pass does on this text
detect_language_nokeywords(text, current_lang, langdetect) ==
  IF TooShort(text) THEN current_lang
  ELSE IF ScriptSignal(text) THEN "hindi"
  ELSE IF langdetect = "hi" THEN "hindi"
  ELSE IF langdetect \in {"en", "en-us", "en-gb"} THEN "english"
  ELSE current_lang
detect_language(text, current_lang, langdetect) ==
  IF TooShort(text) THEN current_lang
  ELSE IF ScriptSignal(text) THEN "hindi"
  ELSE IF langdetect = "hi" THEN "hindi"
  ELSE IF langdetect \in {"en", "en-us", "en-gb"} THEN "english"
  ELSE IF KeywordSignal(text) THEN "hindi"
  ELSE current_lang

\* one call of detect_language
DetectLanguage ==
  /\ lang_out = "none"
  /\ lang_out' = detect_language(lang_in.text, lang_in.current_lang, lang_in.langdetect)
  /\ UNCHANGED <<mainVars, detVars, loopVars, now, histVars, cfgVars, offVars, lang_in, gwVars>>

\* ---------------------------------------------------------------- client messages
\* what requests.post to the dialogue service does: a 2xx response with reply
\* texts, a 2xx response with none, a response that is not 2xx, a timeout, a
\* connection failure, another exception
RasaOutcomes == {"replies", "no_text", "http_error", "timeout", "connection_error", "error"}

\* websocket_server.get_rasa_reply, lines 53-72: one requests.post and the
\* string returned for its outcome
get_rasa_reply(outcome) ==
  [requests |-> 1,
   reply |-> CASE outcome = "replies" -> "joined reply texts"
               [] outcome \in {"no_text", "http_error"} -> "I'm not sure how to respond to that."
               [] outcome = "timeout" -> "Sorry, I'm taking too long to respond."
               [] outcome = "connection_error" ->
                    "Sorry, I couldn't reach the assistant. Please check if Rasa is running."
               [] outcome = "error" -> "An error occurred while processing your request."]

\* the frames a client sends: one that json.loads rejects, and JSON objects
\* by their "type"; a text frame carries "message", a toggle_tts frame may
\* carry "enabled"
MessageTexts == {<<>>, <<"SPACE">>, <<"h", "a", "i">>,
                 <<"DEVANAGARI_KA", "DEVANAGARI_KA", "DEVANAGARI_KA">>}

ClientMessages ==
  [kind : {"not_json", "unknown", "audio", "ping"}, text : {<<>>}, enabled : {"missing"}]
    \cup [kind : {"text"}, text : MessageTexts, enabled : {"missing"}]
    \cup [kind : {"toggle_tts"}, text : {<<>>}, enabled : {"true", "false", "missing"}]

\* the call that raises while a message is handled, if any: the calls that
\* handling a frame of this kind reaches
Faults(kind, accepted, switched) ==
  {"none"}
    \cup (IF kind = "text" /\ accepted /\ switched THEN {"log_language_switch"} ELSE {})
    \cup (IF kind = "text" /\ accepted THEN {"add_conversation"} ELSE {})

\* the outcomes of the langdetect pass that the gateway is run with
MessageLangdetect == {"unavailable", "en", "hi"}

\* line 104: user_message = data.get("message", "").strip(), for each text
user_message ==
  [t \in MessageTexts |-> strip(t)]

\* line 111: detect_language(user_message, current_lang), for each text,
\* stored language and outcome of the langdetect pass
detected_lang ==
  [t \in MessageTexts |-> [l \in Languages |-> [d \in MessageLangdetect |->
     detect_language(user_message[t], l, d)]]]

\* lines 112-121: the rows one accepted text message writes, in the order of
\* the calls: db.log_language_switch when the language changed, then
\* db.add_conversation; a call that raises writes nothing and ends the handling
TextRows_conversation_first(switched, fault) ==
  (IF fault # "log_language_switch" THEN <<"conversation">> ELSE <<>>)
    \o (IF switched /\ fault \notin {"log_language_switch", "add_conversation"}
        THEN <<"switch">> ELSE <<>>)
TextRows(switched, fault) ==
  (IF switched /\ fault # "log_language_switch" THEN <<"switch">> ELSE <<>>)
    \o (IF fault \notin {"log_language_switch", "add_conversation"}
        THEN <<"conversation">> ELSE <<>>)

\* lines 110-115: the language of the session after a text message; the
\* record is updated whenever the detected language differs, and the loaded
\* models are not looked at
SwitchedLanguage(current, detected, loaded) ==
  detected

\* line 137: data.get("enabled", True)
ToggleValue(enabled) ==
  enabled # "false"

\* handle_client, lines 99-141: what handling message m of client c does,
\* given the outcome of the langdetect pass, of the dialogue service and the
\* call that raises
Handling(c, m, langdetect, rasa, fault) ==
  LET current_lang == session[c].language
      detected == detected_lang[m.text][current_lang][langdetect]
      switched == detected # current_lang
      r == get_rasa_reply(rasa)
      called == fault # "log_language_switch"
      stored == fault \notin {"log_language_switch", "add_conversation"}
  IN  IF m.kind = "text" /\ user_message[m.text] # <<>>
      THEN [c |-> c, kind |-> "text", accepted |-> TRUE, detected |-> detected,
            switched |-> switched,
            rasa |-> IF called THEN rasa ELSE "none",
            requests |-> IF called THEN r.requests ELSE 0,
            reply |-> IF called THEN r.reply ELSE "none",
            persisted |-> IF stored THEN r.reply ELSE "none",
            sent |-> IF fault = "none" THEN r.reply ELSE "none",
            fault |-> fault]
      ELSE [NoHandled EXCEPT !.c = c, !.kind = m.kind,
                             !.sent = IF m.kind = "ping" /\ fault = "none" THEN "pong" ELSE "none",
                             !.fault = fault]

\* the handling raised, in json.loads (line 100) on a frame that is not JSON
\* or in a later call: the handler leaves the loop over the messages
Ended(h) ==
  h.fault # "none" \/ h.kind = "not_json"

\* the loop runs the handler of connection c on the next frame, lines
\* 99-141, up to its next await: the send of the response (lines 123, 141)
\* or the next frame; an exception goes to the except clauses and the
\* finally block, lines 143-150
HandleFrame(c, frames) ==
  /\ loopOpen /\ conn[c] = "open"
  /\ AwaitsFrame(c)
  /\ nMsgs < MaxMsgs
  /\ \E m \in frames.messages :
     \E langdetect \in IF m.kind = "text" THEN frames.langdetect ELSE {"unavailable"} :
     \E fault \in Faults(m.kind, user_message[m.text] # <<>>,
                         detected_lang[m.text][session[c].language][langdetect]
                           # session[c].language) \cap frames.faults :
     \E rasa \in IF m.kind = "text" /\ user_message[m.text] # <<>>
                     /\ fault # "log_language_switch"
                  THEN frames.rasa ELSE {"replies"} :
       LET h == Handling(c, m, langdetect, rasa, fault)
           text == h.kind = "text" /\ h.accepted
           rec == [language |-> IF text
                                THEN SwitchedLanguage(session[c].language, h.detected, models)
                                ELSE session[c].language,
                   tts_enabled |-> IF m.kind = "toggle_tts" THEN ToggleValue(m.enabled)
                                   ELSE session[c].tts_enabled]
           rows == dblog[c] \o (IF text THEN TextRows(h.switched, fault) ELSE <<>>)
       IN  /\ lastHandled' = h
           /\ IF Ended(h)
              THEN /\ conn' = [conn EXCEPT ![c] = "closed"]
                   /\ \E end_ok \in BOOLEAN :
                        /\ dblog' = [dblog EXCEPT ![c] = FinallyRows(rows, end_ok)]
                        /\ clients' = FinallyClients(clients, c, end_ok)
                        /\ session' = [session EXCEPT ![c] = FinallySession(rec, end_ok)]
                   /\ lastMsg' = [lastMsg EXCEPT ![c] = NoMessage]
                   /\ UNCHANGED sending
              ELSE /\ dblog' = [dblog EXCEPT ![c] = rows]
                   /\ session' = UpdateRecord(session, c, rec)
                   /\ sending' = IF h.sent = "none" THEN sending
                                  ELSE [sending EXCEPT ![c] =
                                          [type |-> IF text THEN "response" ELSE "pong",
                                           val |-> rec.tts_enabled]]
                   /\ UNCHANGED <<conn, clients, lastMsg>>
  /\ nMsgs' = nMsgs + 1
  /\ UNCHANGED <<mainVars, detVars, loopOpen, queue, nextCb, voice_mode, pending, now,
                 histVars, cfgVars, offVars, langVars>>

\* every frame a client can send, with every outcome of the calls made for it
AnyFrame ==
  [messages |-> ClientMessages, langdetect |-> MessageLangdetect, rasa |-> RasaOutcomes,
   faults |-> {"none", "log_language_switch", "add_conversation"}]

\* the frames of clients whose requests are served: a ping, a TTS toggle and
\* text in either script, with the dialogue service and the database working
ServedFrame ==
  [messages |-> {m \in ClientMessages :
                   \/ m.kind = "ping"
                   \/ m.kind = "toggle_tts" /\ m.enabled = "false"
                   \/ m.kind = "text" /\ Len(m.text) = 3},
   langdetect |-> {"unavailable"}, rasa |-> {"replies"}, faults |-> {"none"}]

HandleMessage(c) ==
  HandleFrame(c, AnyFrame)

HandleServed(c) ==
  HandleFrame(c, ServedFrame)

\* lines 123-130 and 141: await websocket.send of the response or the pong
\* completes and the handler goes on to the next frame
SendResponse(c) ==
  /\ loopOpen /\ conn[c] = "open"
  /\ sending[c] # NoMessage
  /\ lastMsg' = [lastMsg EXCEPT ![c] = sending[c]]
  /\ sending' = [sending EXCEPT ![c] = NoMessage]
  /\ UNCHANGED <<mainVars, detVars, loopOpen, queue, nextCb, voice_mode, clients, conn,
                 pending, now, histVars, cfgVars, offVars, langVars,
                 session, dblog, nMsgs, lastHandled>>

\* lines 123-130 and 141 when the send raises (the client is gone): the
\* except clauses and the finally block, lines 143-150
SendResponseFault(c) ==
  /\ loopOpen /\ conn[c] = "open"
  /\ sending[c] # NoMessage
  /\ conn' = [conn EXCEPT ![c] = "closed"]
  /\ \E end_ok \in BOOLEAN :
       /\ dblog' = [dblog EXCEPT ![c] = FinallyRows(@, end_ok)]
       /\ clients' = FinallyClients(clients, c, end_ok)
       /\ session' = [session EXCEPT ![c] = FinallySession(@, end_ok)]
  /\ lastMsg' = [lastMsg EXCEPT ![c] = NoMessage]
  /\ sending' = [sending EXCEPT ![c] = NoMessage]
  /\ UNCHANGED <<mainVars, detVars, loopOpen, queue, nextCb, voice_mode, pending, now,
                 histVars, cfgVars, offVars, langVars, nMsgs, lastHandled>>

\* ---------------------------------------------------------------- offline assistant
\* main.py, lines 32-44: load_models, the decoder of the current language
\* (models[current_lang] raises KeyError when the english model is not
\* loaded, before the try), the capture stream opened and started
AssistantStart ==
  /\ assistant.pc = "none"
  /\ assistant' =
       IF "english" \in models
       THEN [assistant EXCEPT !.pc = "wake", !.current_lang = "english",
                              !.recognizer = "english", !.stream = 1,
                              !.streams = <<"open">>,
                              !.binding = [language |-> "english", stream |-> 1]]
       ELSE [assistant EXCEPT !.pc = "dead"]
  /\ UNCHANGED <<mainVars, detVars, loopVars, now, histVars, cfgVars, rasa_call,
                 langVars, gwVars>>

\* speech_handler.cleanup_audio(stream, mic), run by the finally block of
\* main: the stream main holds is stopped and closed, errors swallowed, and
\* mic.terminate() ends every stream of the PyAudio instance
cleanup_audio(streams) ==
  [i \in 1..Len(streams) |-> "closed"]

\* switchTo of the language handler: nothing changes when the target has no
\* loaded model; otherwise the stream it is given is stopped and closed, a
\* new capture stream is opened, a decoder of the target model is built and
\* the new binding is live. The caller receives the language and the decoder.
switch_language(target, loaded, a) ==
  IF target \notin loaded \/ target = a.current_lang
  THEN a
  ELSE [a EXCEPT !.streams = Append([@ EXCEPT ![a.stream] = "closed"], "open"),
                 !.binding = [language |-> target, stream |-> Len(a.streams) + 1],
                 !.current_lang = target,
                 !.recognizer = target,
                 !.switches = @ + 1]

\* stream.read on a stream that was closed raises OSError, which main does
\* not catch (line 116 catches KeyboardInterrupt only): the finally block runs
ReadRaises(a) ==
  a.streams[a.stream] = "closed"

\* main loop, lines 78-86: one frame is read from the stream main holds and
\* given to recognizer; on the wake word listen_for_command starts with a
\* decoder of its own (line 60)
WakeFrame ==
  /\ assistant.pc = "wake"
  /\ assistant.frames < MaxFrames
  /\ IF ReadRaises(assistant)
     THEN assistant' = [assistant EXCEPT !.pc = "dead", !.fed = {},
                                         !.streams = cleanup_audio(@)]
     ELSE \E wake \in BOOLEAN :
            assistant' = [assistant EXCEPT
                            !.frames = @ + 1,
                            !.fed = {"recognizer"},
                            !.pc = IF wake THEN "command" ELSE "wake",
                            !.recog = IF wake THEN assistant.current_lang ELSE "none"]
  /\ UNCHANGED <<mainVars, detVars, loopVars, now, histVars, cfgVars, rasa_call,
                 langVars, gwVars>>

\* lines 87-112: what main does with the command listen_for_command returned:
\* detect_language, switch_language when the language differs (line 93
\* rebinds current_lang and recognizer, the name stream is not assigned), the
\* exit words leave the loop and the finally block runs
HandleCommand(a, detected, exit) ==
  LET b == IF detected # a.current_lang THEN switch_language(detected, models, a) ELSE a
  IN  IF exit
      THEN [b EXCEPT !.pc = "exited", !.recog = "none", !.streams = cleanup_audio(@)]
      ELSE [b EXCEPT !.pc = "wake", !.recog = "none"]

\* listen_for_command, lines 64-73: one frame is read from the same stream
\* and given to recog; a final result with text ends the loop, and so does
\* the timeout of 8 seconds, with an empty command
CommandFrame ==
  /\ assistant.pc = "command"
  /\ assistant.frames < MaxFrames
  /\ IF ReadRaises(assistant)
     THEN assistant' = [assistant EXCEPT !.pc = "dead", !.fed = {}, !.recog = "none",
                                         !.streams = cleanup_audio(@)]
     ELSE LET a == [assistant EXCEPT !.frames = @ + 1, !.fed = {"recog"}] IN
          \/ assistant' = a
          \/ assistant' = [a EXCEPT !.pc = "wake", !.recog = "none"]
          \/ \E detected \in Languages, exit \in BOOLEAN :
               assistant' = HandleCommand(a, detected, exit)
  /\ UNCHANGED <<mainVars, detVars, loopVars, now, histVars, cfgVars, rasa_call,
                 langVars, gwVars>>

\* lines 116-120: Ctrl-C while a frame is awaited, then the finally block
AssistantInterrupt ==
  /\ assistant.pc \in {"wake", "command"}
  /\ assistant' = [assistant EXCEPT !.pc = "exited", !.recog = "none",
                                    !.streams = cleanup_audio(@)]
  /\ UNCHANGED <<mainVars, detVars, loopVars, now, histVars, cfgVars, rasa_call,
                 langVars, gwVars>>

\* ---------------------------------------------------------------- rasa_handler
\* rasa_handler.get_rasa_reply, line 8: retries=2
DefaultRetries == 2

\* what one requests.post of rasa_handler.get_rasa_reply does: the outcomes
\* of RasaOutcomes, a 2xx response whose body response.json() cannot parse,
\* and a 2xx response with an item whose "text" is null
PostOutcomes == RasaOutcomes \cup {"bad_body", "null_text"}

\* lines 16-33: the string one attempt returns, "none" when it returns
\* nothing and the loop goes on. response.json() on a body that is not JSON
\* and " ".join on a null text raise inside the try; except Exception (line
\* 32) catches both, as it does the failures of the request
AttemptReturns_retry_empty(outcome) ==
  IF outcome = "replies" THEN "joined reply texts" ELSE "none"
AttemptReturns(outcome) ==
  CASE outcome = "replies" -> "joined reply texts"
    [] outcome = "no_text" -> "I'm not sure how to respond to that."
    [] OTHER -> "none"

\* line 38
RasaFallbackReply ==
  "Sorry, I couldn't reach the assistant right now. Please check if Rasa is running."

\* line 8: a call of get_rasa_reply(message, rasa_url, retries)
RasaCall ==
  /\ rasa_call.pc = "none"
  /\ \E r \in 0..MaxRetries :
       rasa_call' = [NoRasaCall EXCEPT !.pc = "loop", !.retries = r]
  /\ UNCHANGED <<mainVars, detVars, loopVars, now, histVars, cfgVars, assistant,
                 langVars, gwVars>>

\* lines 10-36: one iteration of for attempt in range(retries)
RasaPost ==
  /\ rasa_call.pc = "loop"
  /\ rasa_call.attempt < rasa_call.retries
  /\ \E outcome \in PostOutcomes :
       rasa_call' =
         IF AttemptReturns(outcome) # "none"
         THEN [rasa_call EXCEPT !.requests = @ + 1, !.outcomes = Append(@, outcome),
                                !.pc = "returned", !.result = AttemptReturns(outcome)]
         ELSE [rasa_call EXCEPT !.requests = @ + 1, !.outcomes = Append(@, outcome),
                                !.attempt = @ + 1]
  /\ UNCHANGED <<mainVars, detVars, loopVars, now, histVars, cfgVars, assistant,
                 langVars, gwVars>>

\* line 38: the loop is exhausted
RasaFallback ==
  /\ rasa_call.pc = "loop"
  /\ rasa_call.attempt >= rasa_call.retries
  /\ rasa_call' = [rasa_call EXCEPT !.pc = "returned", !.result = RasaFallbackReply]
  /\ UNCHANGED <<mainVars, detVars, loopVars, now, histVars, cfgVars, assistant,
                 langVars, gwVars>>

\* ---------------------------------------------------------------- time
\* a second passes: no thread is at a statement that takes no time, and no
\* Timer is past its deadline
Tick ==
  /\ now < MaxTime
  /\ mpc # "boot" /\ spc = 0
  /\ dpc \in {"none", "read", "wait", "sleep", "done"}
  /\ \A k \in TimerIds :
       timers[k].st # "fired" /\ (timers[k].st = "armed" => now < timers[k].at)
  /\ now' = now + 1
  /\ UNCHANGED <<mainVars, detVars, loopVars, histVars,
                 cfgVars, offVars, langVars, gwVars>>

\* ---------------------------------------------------------------- specification
Next ==
  \/ start_wake_word_detector
  \/ Shutdown
  \/ StopAgain
  \/ stop
  \/ detect_loop
  \/ timeout_thread
  \/ on_wake_word_detected
  \/ handle_client
  \/ Tick

Spec == Init /\ [][Next]_vars

\* the detector alone, with no client connecting
NextDetector ==
  \/ start_wake_word_detector
  \/ Shutdown
  \/ StopAgain
  \/ stop
  \/ detect_loop
  \/ timeout_thread
  \/ on_wake_word_detected
  \/ Tick

\* the threads of the detector keep running (the operating system schedules
\* them); nothing is assumed of the event loop or of the caller of stop()
FairDetectorSpec ==
  Init /\ [][NextDetector]_vars /\ WF_vars(detect_loop) /\ WF_vars(timeout_thread)

\* detect_language alone, on every text of the bound, language and outcome
\* of the langdetect pass
InitLanguage ==
  /\ ProcessInit
  /\ config = [access_key |-> TRUE, keyword_paths |-> <<TRUE>>]
  /\ models = Languages
  /\ lang_in \in [text : Texts, current_lang : Languages, langdetect : LangdetectOutcomes]
  /\ lang_out = "none"

NextLanguage ==
  DetectLanguage

LanguageSpec == InitLanguage /\ [][NextLanguage]_vars

\* the gateway serving clients without a detector (its construction failed
\* on the configuration), for every outcome of load_models, and with calls of
\* ConversationDB that may raise
InitGateway ==
  /\ ProcessInit
  /\ config = [access_key |-> FALSE, keyword_paths |-> <<>>]
  /\ models \in SUBSET Languages
  /\ lang_in = NoCall /\ lang_out = "none"

NextGateway ==
  \/ start_wake_word_detector
  \/ Shutdown
  \/ \E c \in ClientIds :
       \/ Connect(c) \/ ConnectFault(c) \/ Disconnect(c) \/ DisconnectFault(c)
       \/ HandleMessage(c) \/ SendResponse(c) \/ SendResponseFault(c)

GatewaySpec == InitGateway /\ [][NextGateway]_vars

\* the offline assistant of main.py, for every outcome of load_models
InitAssistant ==
  /\ ProcessInit
  /\ config = [access_key |-> FALSE, keyword_paths |-> <<>>]
  /\ models \in SUBSET Languages
  /\ lang_in = NoCall /\ lang_out = "none"

NextAssistant ==
  \/ AssistantStart
  \/ WakeFrame
  \/ CommandFrame
  \/ AssistantInterrupt

AssistantSpec == InitAssistant /\ [][NextAssistant]_vars

\* one call of rasa_handler.get_rasa_reply, for every retries argument of
\* the bound and every outcome of each request; the function runs on the
\* thread of its caller and every request ends (timeout=5, line 14)
InitRasa ==
  /\ ProcessInit
  /\ config = [access_key |-> FALSE, keyword_paths |-> <<>>]
  /\ models = Languages
  /\ lang_in = NoCall /\ lang_out = "none"

NextRasa ==
  \/ RasaCall
  \/ RasaPost
  \/ RasaFallback

RasaSpec == InitRasa /\ [][NextRasa]_vars /\ WF_vars(NextRasa)

\* the gateway with its detector running and several clients, which connect,
\* send messages and leave while voice mode is broadcast; the events the
\* loop is given, wake words and client frames together, are MaxMsgs
InitServing ==
  /\ ProcessInit
  /\ config = [access_key |-> TRUE, keyword_paths |-> <<TRUE>>]
  /\ models = Languages
  /\ lang_in = NoCall /\ lang_out = "none"

NextServing ==
  \/ start_wake_word_detector
  \/ detect_loop /\ (nDetect' # nDetect => nDetect + nMsgs < MaxMsgs)
  \/ on_wake_word_detected
  \/ \E c \in SessionIds :
       \/ Connect(c) \/ Disconnect(c) \/ Send(c)
       \/ nDetect + nMsgs < MaxMsgs /\ HandleServed(c)
       \/ SendResponse(c) \/ SendResponseFault(c)

ServingSpec == InitServing /\ [][NextServing]_vars

\* ---------------------------------------------------------------- properties
\* every handoff that was issued has run and its sends are complete, and no
\* thread is between a match or an expiry and its handoff
Settled ==
  /\ queue = <<>>
  /\ \A c \in ClientIds : pending[c] = <<>>
  /\ dpc \notin {"reset", "reset_arm", "handoff"}
  /\ \A k \in TimerIds : timers[k].st # "fired"

\* C1: for detections whose successive gaps are all shorter than the timeout,
\* voice mode is LISTENING from the first detection until the timeout has
\* elapsed since the last detection, and IDLE after that
C1_ListeningUntilTimeout ==
  (loopOpen /\ nDetect >= 1 /\ gapsOK /\ Settled) =>
     /\ (now < lastDetect + Timeout) => voice_mode
     /\ (now > lastDetect + Timeout) => ~voice_mode

\* C2: at most one inactivity timer is armed and able to fire
C2_AtMostOneTimerOutstanding ==
  Cardinality(Armed) <= 1

\* a reset has cancelled an armed timer and armed its replacement
C2_Witness ==
  \E j, k \in TimerIds : timers[j].st = "cancelled" /\ timers[k].st = "armed"

\* C3: no disable notification runs while voice mode is already IDLE
C3_NoDisableWhileIdle ==
  [][(ran' # ran /\ ~Head(queue).enable) => voice_mode]_vars

C5_ClientSeesCurrentVoiceMode ==
  /\ [](\A c \in ClientIds : conn[c] = "open" =>
          /\ lastMsg[c].type \in {"system", "voice_mode"}
          /\ pending[c] = <<>> => lastMsg[c].val = voice_mode)
  /\ [][\A c \in ClientIds :
          /\ (conn[c] = "new" /\ conn'[c] = "open") =>
               (lastMsg'[c] = [type |-> "system", val |-> voice_mode]
                  /\ pending'[c] = <<>>)
          /\ Len(pending'[c]) > Len(pending[c]) =>
               pending'[c][Len(pending'[c])].cb \in ran' \ ran]_vars

\* a client connected, voice mode changed afterwards, and the broadcast of
\* the change has been written to the client
C5_Witness ==
  \E c \in ClientIds :
     /\ conn[c] = "open" /\ pending[c] = <<>>
     /\ lastMsg[c].type = "voice_mode" /\ lastMsg[c].val

\* C6: the detection loop does not stay in the wait for the callback: it goes
\* on to read the next frame, or ends because stop() was called
C6_LoopNeverBlocksOnCallback ==
  (dpc = "wait") ~> (dpc \in {"read", "done"})

\* the loop reads the next frame although the callback it handed off has not run
C6_Witness ==
  dpc = "read" /\ dfut # 0 /\ dfut \notin ran /\ dfut \in abandoned

\* C7: a notification whose bounded wait timed out does not run afterwards
C7_AbandonedNeverRuns ==
  [][\A id \in abandoned : id \notin ran']_vars

\* C8: a second stop() releases nothing again
C8_StopIdempotent ==
  /\ relCalls.stream <= 1
  /\ relCalls.pa <= 1
  /\ relCalls.porcupine <= 1

\* C9: once stop() has returned no timer is armed
C9_NoTimerAfterStop ==
  nStops >= 1 => Armed = {}

\* C10: when the process has left its exit path no acquired handle is live
C10_HandlesReleasedOnExit ==
  (mpc = "exited" /\ spc = 0) =>
     (porcupine # "live" /\ pa # "live" /\ stream # "live")

\* C11: an error of stream.read or of the spotter never ends the detection
\* loop: the loop ends only at its while test, and only when stop() has
\* cleared _listening; after an error it goes on to read the next frame, or
\* ends because stop() was called
C11_ErrorsNeverEndLoop ==
  /\ [][dpc' = "done" => (dpc \in {"check", "done"} /\ ~listening)]_vars
  /\ (dpc = "sleep") ~> (dpc \in {"read", "done"})

\* a read failed after a match while stop() has not been called, and the
\* thread is inside the loop
C11_Witness ==
  dpc = "sleep" /\ listening /\ nDetect >= 1 /\ stream = "live"

\* C12: with the access key missing, the keyword-path list empty or a
\* keyword file missing, nothing is acquired, the detection loop is never
\* entered, no timer is ever armed and no notification is ever issued
C12_ConfigErrorBeforeAcquisition ==
  (\/ ~config.access_key
   \/ config.keyword_paths = <<>>
   \/ \E i \in 1..Len(config.keyword_paths) : ~config.keyword_paths[i]) =>
     /\ porcupine = "none" /\ pa = "none" /\ stream = "none"
     /\ ~ww_detector /\ ~listening /\ dpc = "none"
     /\ timer = 0 /\ \A k \in TimerIds : timers[k].st = "unused"
     /\ nextCb = 1 /\ queue = <<>> /\ ran = {}

\* the constructor was called with a key and two keyword paths, the file of
\* the second is missing, and the process serves without a detector
C12_Witness ==
  /\ config.access_key /\ config.keyword_paths = <<TRUE, FALSE>>
  /\ mpc = "serving"

\* C13: a text with fewer than 3 non-whitespace characters, whitespace
\* anywhere in it not counted, gives the current language
C13_ShortTextKeepsLanguage ==
  (/\ lang_out # "none"
   /\ Cardinality({i \in 1..Len(lang_in.text) : lang_in.text[i] # "SPACE"}) < 3) =>
     lang_out = lang_in.current_lang

C15_KeywordAnyIdentification ==
  (/\ lang_out # "none"
   /\ Len(lang_in.text) >= 3
   /\ ~ScriptSignal(lang_in.text)
   /\ KeywordSignal(lang_in.text)
   /\ lang_in.current_lang = "english") =>
     lang_out = "hindi"

\* C15: a text of at least 3 characters with no script signal that contains
\* a Hindi keyword gives 'hindi' from current language english, unless the
\* langdetect pass identifies the text as English
C15_KeywordFallback ==
  (/\ lang_out # "none"
   /\ Len(lang_in.text) >= 3
   /\ ~ScriptSignal(lang_in.text)
   /\ KeywordSignal(lang_in.text)
   /\ lang_in.current_lang = "english"
   /\ lang_in.langdetect \notin {"en", "en-us", "en-gb"}) =>
     lang_out = "hindi"

\* "Hai " with langdetect returning a language that is not supported: the
\* keyword fallback gives hindi
C15_Witness ==
  /\ lang_in.text = <<"H", "a", "i", "SPACE">>
  /\ lang_in.current_lang = "english" /\ lang_in.langdetect = "fr"
  /\ lang_out = "hindi"

C17_TwoAttemptsOneFallback ==
  (/\ lastHandled.kind = "text"
   /\ lastHandled.rasa \in {"http_error", "timeout", "connection_error"}) =>
     /\ lastHandled.requests = 2
     /\ lastHandled.reply =
          "Sorry, I couldn't reach the assistant. Please check if Rasa is running."
     /\ lastHandled.fault = "none" =>
          (lastHandled.persisted = lastHandled.reply /\ lastHandled.sent = lastHandled.reply)

\* C18: once the handler of a connection has ended, the end of its session
\* is persisted and the registry has no record of it
C18_HandlerEndCleansUp ==
  \A c \in ClientIds :
     conn[c] = "closed" =>
       /\ c \notin clients
       /\ dblog[c] # <<>> /\ dblog[c][Len(dblog[c])] = "end"

\* C19: a frame that is not JSON or has an unknown type is ignored: the
\* connection stays open, the session registered and not ended
C19_MalformedIgnored ==
  [][(nMsgs' # nMsgs /\ lastHandled'.kind \in {"not_json", "unknown"}) =>
       /\ conn'[lastHandled'.c] = "open"
       /\ lastHandled'.c \in clients'
       /\ dblog' = dblog /\ session' = session]_vars

\* C20: a text message whose detected language has no loaded model leaves
\* the language of the session as it was and records no LanguageSwitchEvent
C20_NoSwitchWithoutModel ==
  [][(/\ nMsgs' # nMsgs /\ lastHandled'.kind = "text" /\ lastHandled'.accepted
      /\ lastHandled'.fault = "none"
      /\ lastHandled'.detected \notin models) =>
       LET c == lastHandled'.c IN
         /\ session'[c].language = session[c].language
         /\ dblog'[c] \in {dblog[c], Append(dblog[c], "conversation")}]_vars

C22_BestEffortBroadcast ==
  [][\A c \in SessionIds :
       (conn[c] # "open" /\ pending[c] # <<>> /\ pending'[c] = Tail(pending[c])) =>
          /\ voice_mode' = voice_mode
          /\ \A d \in SessionIds \ {c} : pending'[d] = pending[d]]_vars

\* of the one broadcast made, the send to a client that had left raised and
\* the other client got the message; voice mode is on
C22_Witness ==
  \E c, d \in SessionIds :
     /\ nDetect = 1 /\ voice_mode
     /\ lastMsg[c] = [type |-> "send_raised", val |-> TRUE]
     /\ conn[d] = "open" /\ d \in clients
     /\ lastMsg[d] = [type |-> "voice_mode", val |-> TRUE]

\* C23: handling a text or toggle_tts message of one connection leaves the
\* record of every other connection as it was, sends nothing to another
\* client and schedules no broadcast; a response reaches only the client
\* whose handler sent it
C23_OtherSessionsUntouched ==
  [][/\ (nMsgs' # nMsgs /\ lastHandled'.kind \in {"text", "toggle_tts"}) =>
          /\ \A d \in SessionIds \ {lastHandled'.c} :
                /\ session'[d] = session[d]
                /\ lastMsg'[d] = lastMsg[d]
                /\ sending'[d] = sending[d]
          /\ pending' = pending /\ queue' = queue
     /\ \A d \in SessionIds :
          (lastMsg'[d] # lastMsg[d] /\ lastMsg'[d].type = "response") =>
             /\ sending[d] = lastMsg'[d]
             /\ \A e \in SessionIds \ {d} : lastMsg'[e] = lastMsg[e]]_vars

\* a client wrote in Hindi and got its response while another client is
\* connected: the language of the first session is hindi, the record of the
\* other is as it was registered and its latest message is the system message
C23_Witness ==
  \E c, d \in SessionIds :
     /\ c # d /\ conn[c] = "open" /\ conn[d] = "open"
     /\ lastHandled.c = c /\ lastHandled.kind = "text" /\ lastHandled.switched
     /\ session[c].language = "hindi" /\ lastMsg[c].type = "response"
     /\ session[d] = NewSession /\ lastMsg[d].type = "system"

\* C24: the handler of a connection starts on a frame only when the
\* response to the frame before was sent; while the response is awaited
\* nothing is persisted for the connection and its record is not written,
\* and the await ends with that response delivered or with the handler ended
C24_OneMessageAtATime ==
  [][\A c \in SessionIds :
       /\ (nMsgs' # nMsgs /\ lastHandled'.c = c) => sending[c] = NoMessage
       /\ sending[c] # NoMessage =>
            /\ sending'[c] \in {sending[c], NoMessage}
            /\ conn'[c] = "open" => (dblog'[c] = dblog[c] /\ session'[c] = session[c])
            /\ (sending'[c] = NoMessage /\ conn'[c] = "open") => lastMsg'[c] = sending[c]]_vars

\* a connection had two text messages answered, one after the other, while
\* another client was connected
C24_Witness ==
  \E c, d \in SessionIds :
     /\ c # d /\ conn[c] = "open" /\ conn[d] = "open"
     /\ nMsgs = 2 /\ lastHandled.c = c
     /\ Len(SelectSeq(dblog[c], LAMBDA row : row = "conversation")) = 2
     /\ sending[c] = NoMessage /\ lastMsg[c].type = "response"

\* C25: voice_mode is written only by a notification that runs on the
\* event loop, with the value the notification carries; the registry is
\* written by no step of the detection thread or of a Timer thread, which
\* do not write the records either; the notifications of the detection thread carry true and those of
\* the Timer threads false
C25_SessionStateOnLoopOnly ==
  [][/\ voice_mode' # voice_mode =>
          (loopOpen /\ queue # <<>> /\ ran' # ran /\ voice_mode' = Head(queue).enable)
     /\ clients' # clients =>
          (loopOpen /\ dpc' = dpc /\ timers' = timers)
     /\ Len(queue') > Len(queue) =>
          (queue'[Len(queue')].enable <=> (dpc = "handoff" /\ dpc' = "wait"))
     /\ (dpc' # dpc \/ timers' # timers) =>
          (voice_mode' = voice_mode /\ clients' = clients /\ session' = session)]_vars

\* with a client registered, the notification of a detection has run and a
\* notification of a Timer after it: voice mode is off again
C25_Witness ==
  /\ clients # {} /\ nDetect = 1 /\ dfut \in ran /\ Cardinality(ran) >= 2
  /\ ~voice_mode /\ queue = <<>>

\* the attempts made so far that returned nothing
AllFailed(outcomes) ==
  \A i \in 1..Len(outcomes) : outcomes[i] \notin {"replies", "no_text"}

\* C26 as stated: every 2xx response with no text ends the call with the
\* 'not sure' string, without another request
C26_NoTextNeverRetried ==
  \A i \in 1..Len(rasa_call.outcomes) :
     rasa_call.outcomes[i] \in {"no_text", "bad_body", "null_text"} =>
       /\ i = Len(rasa_call.outcomes)
       /\ rasa_call.pc = "returned"
       /\ rasa_call.result = "I'm not sure how to respond to that."

\* C26: get_rasa_reply returns after at most retries requests: the joined
\* texts on the first 2xx response with text, the 'not sure' string without
\* another request on a 2xx response whose JSON body has no text; an attempt
\* that ends any other way (non-2xx, timeout, connection failure, a body that
\* cannot be parsed or joined, another exception) is followed by the next
\* one, and the fallback string is returned exactly when every attempt ended
\* that way
C26_RetriesThenFallback ==
  /\ [](/\ rasa_call.requests = Len(rasa_call.outcomes)
        /\ rasa_call.requests <= rasa_call.retries
        /\ AllFailed(SubSeq(rasa_call.outcomes, 1, Len(rasa_call.outcomes) - 1))
        /\ rasa_call.pc = "loop" => AllFailed(rasa_call.outcomes)
        /\ rasa_call.pc = "returned" =>
             LET n == Len(rasa_call.outcomes)
                 last == IF n = 0 THEN "none" ELSE rasa_call.outcomes[n]
             IN  /\ rasa_call.result = "joined reply texts" <=> last = "replies"
                 /\ rasa_call.result = "I'm not sure how to respond to that."
                      <=> last = "no_text"
                 /\ rasa_call.result = RasaFallbackReply
                      <=> (n = rasa_call.retries /\ AllFailed(rasa_call.outcomes)))
  /\ (rasa_call.pc = "loop") ~> (rasa_call.pc = "returned")

\* with the default of two attempts, a timeout and then a 2xx response whose
\* body is not JSON: the fallback string was returned after two requests
C26_Witness ==
  /\ rasa_call.pc = "returned" /\ rasa_call.retries = DefaultRetries
  /\ rasa_call.outcomes = <<"timeout", "bad_body">>
  /\ rasa_call.requests = 2 /\ rasa_call.result = RasaFallbackReply

\* C27: voice mode is not IDLE while the Timer of the most recent detection
\* is armed and the enable notification of that detection has run
C27_ReplacedTimerNeverDisables ==
  (/\ loopOpen /\ nDetect >= 1
   /\ dpc \notin {"reset", "reset_arm", "handoff"}
   /\ dfut \in ran
   /\ timer # 0 /\ timers[timer].st = "armed") => voice_mode

\* C28: the detection thread reads a frame only from a capture stream that
\* is open and calls the spotter only while it exists
C28_NoUseAfterRelease ==
  [][/\ (dpc = "read" /\ dpc' # dpc) => stream = "live"
     /\ (dpc = "process" /\ dpc' # dpc) => porcupine = "live"]_vars

====
